---- MODULE Spec2Model ----
(***************************************************************************)
(* Model of the SMS dashboard server (src/server.js): the startup sequence *)
(* (initializeApp, loadConversationsFromTwilio) and the request handlers   *)
(* that read or change the in-memory contact map and conversation index;   *)
(* and of the dashboard page (src/public/client.js) that mirrors the index *)
(* from GET /conversations and the socket events.                          *)
(* Every await of the source is a point where the handler is suspended and *)
(* other handlers may run; the code between two awaits is one step.        *)
(***************************************************************************)
EXTENDS Integers, Sequences, FiniteSets, TLC

\* ------------------------------------------------------------------ bounds

\* Number of HTTP requests that arrive in one behaviour.
MaxRequests == 2

\* Number of requests about contacts that arrive in one behaviour.
MaxContactRequests == 3

\* Length of the message history the provider returns to messages.list.
MaxHistory == 2

\* Provider timestamps (dateCreated) range over 1..MaxTime.
MaxTime == 2

\* ------------------------------------------------------------- value sets

None == "none"

\* process.env.TWILIO_FROM_NUMBER, the owner's phone, the customers' phones.
TwilioNumber == "T"
OwnerNumber == "O"
Phones == {"P1", "P2"}

\* What a user may type for a customer's number: the number as the provider
\* writes it, or another spelling of it that the provider accepts.
Dialled == Phones \cup {"p1"}

\* The number as the provider writes it in the messages it returns.
E164(number) == IF number = "p1" THEN "P1" ELSE number

\* Display names; the empty string is a name the HTTP interface accepts.
Names == {"", "N1"}

\* A text is a sequence of fragments, so that a template can be concatenated.
Body1 == <<"B1">>

\* The handler runs that can be in flight at the same time: a run takes the
\* lowest free slot, and a slot is free again once its response is sent.
Slots == {1, 2}

\* The browser sessions that may connect a socket.
Sessions == {"S1", "S2"}

EmptyMap == [x \in {} |-> None]

Put(m, k, v) == [x \in DOMAIN m \cup {k} |-> IF x = k THEN v ELSE m[x]]

Remove(m, k) == [x \in DOMAIN m \ {k} |-> m[x]]

\* JavaScript truthiness of a string value or undefined.
Truthy(v) == v # None /\ v # ""

\* a || b on strings.
OrElse(a, b) == IF Truthy(a) THEN a ELSE b

\* ------------------------------------------------------------ timestamps

\* A timestamp in memory is a Date object; JSON.stringify turns it into an
\* ISO string, and JSON.parse leaves that string a string.
DateOf(t) == <<"Date", t>>

IsoOf(ts) == <<"iso", ts[2]>>

\* new Date(x) - new Date(y) compares the instants, whatever the form.
Millis(ts) == ts[2]

NoMessage ==
  [id |-> <<None, 0>>, from |-> None, to |-> None, body |-> <<>>,
   direction |-> None, timestamp |-> <<None, 0>>, status |-> None]

StringifyMessage(m) == [m EXCEPT !.timestamp = IsoOf(m.timestamp)]

\* JSON.stringify(conversations) followed by what JSON.parse would return.
StringifyConversations(c) ==
  [p \in DOMAIN c |-> [i \in 1 .. Len(c[p]) |-> StringifyMessage(c[p][i])]]

\* JSON.stringify(customers): a property whose value is undefined is left out.
StringifyCustomers(c) == [p \in { q \in DOMAIN c : c[q] # None } |-> c[p]]

\* Object.assign(target, source)
Merge(target, source) ==
  [p \in DOMAIN target \cup DOMAIN source |->
     IF p \in DOMAIN source THEN source[p] ELSE target[p]]

\* A parsed JSON request body. object says that typeof body === 'object' and
\* body !== null; data holds the body's own enumerable properties.
ObjectOf(mapping) == [object |-> TRUE, array |-> FALSE, data |-> mapping]

\* null or a scalar.
NotAnObject == [object |-> FALSE, array |-> FALSE, data |-> EmptyMap]

\* The property keys of an array's elements.
IndexKeys == <<"0", "1">>

\* A JSON array: typeof gives 'object', and its own enumerable properties are
\* its elements under their indices.
ArrayOf(elements) ==
  [object |-> TRUE, array |-> TRUE,
   data |-> [k \in { IndexKeys[i] : i \in 1 .. Len(elements) } |->
               elements[CHOOSE i \in 1 .. Len(elements) : IndexKeys[i] = k]]]

\* A file on disk: readable with parsed content, or missing / not valid JSON.
FileOf(content) == [ok |-> TRUE, data |-> content]

Unreadable == [ok |-> FALSE, data |-> EmptyMap]

\* ------------------------------------------------------------------ state

VARIABLES
  variant,            \* which of the two server variants of server.js runs
  env,                \* process.env: owner number, provider credentials
  providerMessages,   \* what the provider returns to messages.list
  settingsFile,       \* data/settings.json
  customersFile,      \* data/customers.json
  conversationsFile,  \* data/conversations.json
  settings,           \* let settings
  customers,          \* let customers
  conversations,      \* let conversations
  twilioClient,       \* let twilioClient
  boot,               \* position of startServer / initializeApp
  listed,             \* outcome of the provider query, while startup runs
  arrived,            \* number of requests that have arrived
  pc,                 \* position of each request's handler
  req,                \* each request
  resp,               \* each response
  local,              \* each handler's local variables that live across awaits
  wbuf,               \* content of each handler's pending fs.writeFile
  log,                \* what each handler run has done so far, in order
  events,             \* everything io.emit has published, in order
  clock,              \* the server clock read by new Date()
  nextSid,            \* the provider's counter of message identifiers
  connected,          \* the sessions whose socket is connected
  page,               \* position of the dashboard page (public/client.js)
  snapshot,           \* body of the GET /conversations response in flight
  mirror,             \* this.conversations
  rendered,           \* the numbers of the items in the conversations list
  currentConversation,  \* this.currentConversation
  unreadConversations,  \* this.unreadConversations
  handled             \* number of socket events the page has handled

\* The state of the dashboard page in the browser.
clientVars ==
  <<page, snapshot, mirror, rendered, currentConversation, unreadConversations,
    handled>>

\* What no request handler writes.
bootVars ==
  <<variant, env, providerMessages, settingsFile, settings, twilioClient, boot,
    listed, connected, clientVars>>

\* What the startup sequence does not write.
handlerVars ==
  <<arrived, pc, req, resp, local, wbuf, log, events, clock, nextSid,
    connected, clientVars>>

\* Everything but the set of connected sessions.
serverVars ==
  <<variant, env, providerMessages, settingsFile, customersFile,
    conversationsFile, settings, customers, conversations, twilioClient, boot,
    listed, arrived, pc, req, resp, local, wbuf, log, clock, nextSid>>

vars ==
  <<variant, env, providerMessages, settingsFile, customersFile,
    conversationsFile, settings, customers, conversations, twilioClient, boot,
    listed, arrived, pc, req, resp, local, wbuf, log, events, clock, nextSid,
    connected, clientVars>>

\* ------------------------------------------------------------ provider sync

\* The messages the provider can hold at position i of its history.
ProviderMessagesAt(i) ==
  { [sid |-> <<"hist", i>>, from |-> p, to |-> TwilioNumber, body |-> Body1,
     direction |-> "inbound", dateCreated |-> DateOf(t), status |-> "received"] :
      p \in Phones, t \in 1 .. MaxTime }
  \cup
  { [sid |-> <<"hist", i>>, from |-> TwilioNumber, to |-> p, body |-> Body1,
     direction |-> "outbound-api", dateCreated |-> DateOf(t),
     status |-> "delivered"] :
      p \in Phones \cup {OwnerNumber}, t \in 1 .. MaxTime }

Histories ==
  UNION { { h \in [1 .. n -> UNION { ProviderMessagesAt(i) : i \in 1 .. n }] :
              \A i \in 1 .. n : h[i] \in ProviderMessagesAt(i) } :
          n \in 0 .. MaxHistory }

\* The counterparty of a provider message and the direction stored for it.
IsOutbound(message) == message.from = TwilioNumber

PhoneNumberOf(v, message) ==
  IF v = 1
    THEN IF IsOutbound(message) THEN message.to ELSE message.from
    ELSE IF message.direction = "inbound" THEN message.from ELSE message.to

DirectionOf(v, message) ==
  IF v = 1
    THEN IF IsOutbound(message) THEN "outbound" ELSE "inbound"
    ELSE message.direction

FromProvider(v, message) ==
  [id |-> message.sid, from |-> message.from, to |-> message.to,
   body |-> message.body, direction |-> DirectionOf(v, message),
   timestamp |-> message.dateCreated, status |-> message.status]

\* messages.forEach(...): each message is pushed onto its counterparty's list.
RECURSIVE Grouped(_, _, _)
Grouped(v, messages, acc) ==
  IF messages = <<>> THEN acc
  ELSE LET message == Head(messages)
           phoneNumber == PhoneNumberOf(v, message)
           old == IF phoneNumber \in DOMAIN acc THEN acc[phoneNumber] ELSE <<>>
       IN Grouped(v, Tail(messages),
                  Put(acc, phoneNumber, Append(old, FromProvider(v, message))))

\* Array.prototype.sort with (a, b) => new Date(a.timestamp) - new Date(b.timestamp):
\* a stable sort by ascending instant.
RECURSIVE InsertSorted(_, _)
InsertSorted(sorted, m) ==
  IF sorted = <<>> THEN <<m>>
  ELSE IF Millis(Head(sorted).timestamp) <= Millis(m.timestamp)
         THEN <<Head(sorted)>> \o InsertSorted(Tail(sorted), m)
         ELSE <<m>> \o sorted

RECURSIVE SortByTimestamp(_)
SortByTimestamp(s) ==
  IF s = <<>> THEN <<>>
  ELSE InsertSorted(SortByTimestamp(SubSeq(s, 1, Len(s) - 1)), s[Len(s)])

Rebuilt(v, messages) ==
  LET grouped == Grouped(v, messages, EmptyMap)
  IN [p \in DOMAIN grouped |-> SortByTimestamp(grouped[p])]

\* ----------------------------------------------------------------- startup

\* initializeApp, had it no outer try: a rejected read of the settings file or
\* a throwing twilio() rejects startServer, and server.listen is never called.
ReadSettings_Unguarded ==
  /\ boot = "readSettings"
  /\ IF ~settingsFile.ok
       THEN /\ boot' = "failed"
            /\ UNCHANGED <<settings, twilioClient>>
       ELSE /\ settings' = settingsFile.data
            /\ IF env.credentials
                 THEN twilioClient' = "client" /\ boot' = "readCustomers"
                 ELSE twilioClient' = None /\ boot' = "failed"
  /\ UNCHANGED <<variant, env, providerMessages, settingsFile, customersFile,
                 conversationsFile, customers, conversations, listed>>
  /\ UNCHANGED handlerVars

\* initializeApp: fs.readFile(SETTINGS_FILE), JSON.parse, twilio(sid, token).
ReadSettings ==
  /\ boot = "readSettings"
  /\ IF ~settingsFile.ok
       THEN /\ boot' = "initialized"
            /\ UNCHANGED <<settings, twilioClient>>
       ELSE /\ settings' = settingsFile.data
            /\ IF env.credentials
                 THEN twilioClient' = "client" /\ boot' = "readCustomers"
                 ELSE twilioClient' = None /\ boot' = "initialized"
  /\ UNCHANGED <<variant, env, providerMessages, settingsFile, customersFile,
                 conversationsFile, customers, conversations, listed>>
  /\ UNCHANGED handlerVars

\* initializeApp: the inner try that loads the contact map, then the call of
\* loadConversationsFromTwilio up to its await of messages.list.
ReadCustomers ==
  /\ boot = "readCustomers"
  /\ customers' = IF customersFile.ok THEN customersFile.data ELSE EmptyMap
  /\ boot' = "list"
  /\ UNCHANGED <<variant, env, providerMessages, settingsFile, customersFile,
                 conversationsFile, settings, conversations, twilioClient, listed>>
  /\ UNCHANGED handlerVars

\* loadConversationsFromTwilio: messages.list resolved; the index is rebuilt
\* and sorted, and fs.writeFile(CONVERSATIONS_FILE) is awaited.
ListResolved ==
  /\ boot = "list"
  /\ conversations' = Rebuilt(variant, providerMessages)
  /\ listed' = "ok"
  /\ boot' = "writeConversations"
  /\ UNCHANGED <<variant, env, providerMessages, settingsFile, customersFile,
                 conversationsFile, settings, customers, twilioClient>>
  /\ UNCHANGED handlerVars

\* loadConversationsFromTwilio: messages.list rejected; control is in the catch,
\* awaiting fs.readFile(CONVERSATIONS_FILE).
ListRejected ==
  /\ boot = "list"
  /\ listed' = "failed"
  /\ boot' = "readConversations"
  /\ UNCHANGED <<variant, env, providerMessages, settingsFile, customersFile,
                 conversationsFile, settings, customers, conversations,
                 twilioClient>>
  /\ UNCHANGED handlerVars

\* loadConversationsFromTwilio: the write of the rebuilt index resolved.
ResyncSaved ==
  /\ boot = "writeConversations"
  /\ conversationsFile' = FileOf(StringifyConversations(conversations))
  /\ boot' = "initialized"
  /\ UNCHANGED <<variant, env, providerMessages, settingsFile, customersFile,
                 settings, customers, conversations, twilioClient, listed>>
  /\ UNCHANGED handlerVars

\* loadConversationsFromTwilio: the write rejected (the file is left as it was,
\* or truncated); the same catch runs as for a provider failure.
ResyncSaveRejected ==
  /\ boot = "writeConversations"
  /\ conversationsFile' \in {conversationsFile, Unreadable}
  /\ boot' = "readConversations"
  /\ UNCHANGED <<variant, env, providerMessages, settingsFile, customersFile,
                 settings, customers, conversations, twilioClient, listed>>
  /\ UNCHANGED handlerVars

\* The catch, had it started from an empty index without reading the file.
ReadConversations_Empty ==
  /\ boot = "readConversations"
  /\ conversations' = EmptyMap
  /\ boot' = "initialized"
  /\ UNCHANGED <<variant, env, providerMessages, settingsFile, customersFile,
                 conversationsFile, settings, customers, twilioClient, listed>>
  /\ UNCHANGED handlerVars

\* loadConversationsFromTwilio, catch: the index becomes the parsed file, or {}.
ReadConversations ==
  /\ boot = "readConversations"
  /\ conversations' =
       IF conversationsFile.ok THEN conversationsFile.data ELSE EmptyMap
  /\ boot' = "initialized"
  /\ UNCHANGED <<variant, env, providerMessages, settingsFile, customersFile,
                 conversationsFile, settings, customers, twilioClient, listed>>
  /\ UNCHANGED handlerVars

\* startServer: initializeApp has returned, whatever happened in it, and
\* server.listen is called; what the resync went through is not kept.
Listen ==
  /\ boot = "initialized"
  /\ boot' = "listening"
  /\ listed' = None
  /\ UNCHANGED <<variant, env, providerMessages, settingsFile, customersFile,
                 conversationsFile, settings, customers, conversations,
                 twilioClient>>
  /\ UNCHANGED handlerVars

\* ------------------------------------------------------- request handlers

NoRequest ==
  [kind |-> None, phoneNumber |-> None, name |-> None, body |-> <<>>,
   sid |-> <<None, 0>>, mapping |-> NotAnObject]

NoResponse ==
  [status |-> 0, type |-> None, text |-> None, message |-> NoMessage,
   index |-> EmptyMap, contacts |-> EmptyMap, imported |-> 0, total |-> 0,
   timestamp |-> <<None, 0>>]

NoTwilioMessage ==
  [sid |-> <<None, 0>>, from |-> None, to |-> None, body |-> <<>>,
   status |-> None]

NoLocal ==
  [twilioMessage |-> NoTwilioMessage, messageData |-> NoMessage,
   forwardMessage |-> <<>>]

\* res.json({ success: true, ... }), res.status(s).json({ error: ... })
JsonSuccess(message) ==
  [NoResponse EXCEPT !.status = 200, !.type = "application/json",
                     !.text = "success", !.message = message]

JsonError(status) ==
  [NoResponse EXCEPT !.status = status, !.type = "application/json",
                     !.text = "error"]

\* An entry of a handler run's log.
Did(op, phoneNumber, message, body) ==
  [op |-> op, phoneNumber |-> phoneNumber, message |-> message, body |-> body]

\* io.emit(type, { phoneNumber, message }): one packet to each socket that is
\* connected when it is called.
Event(type, phoneNumber, message) ==
  [type |-> type, phoneNumber |-> phoneNumber, message |-> message,
   sessions |-> connected]

Emitted(e) == Did("emit", e.phoneNumber, e.message, <<e.type>>)

Free(h) == pc[h] \in {"idle", "done"}

\* The arrival of a request, had startServer listened without awaiting
\* initializeApp.
Arrives_WhileInitializing(h, request) ==
  /\ arrived < MaxRequests
  /\ Free(h)
  /\ \A k \in Slots : k < h => ~Free(k)
  /\ arrived' = arrived + 1
  /\ req' = [req EXCEPT ![h] = request]

\* A request arrives while the server listens and starts a new handler run in
\* the lowest free slot, with fresh local variables.
Arrives(h, request) ==
  /\ boot = "listening"
  /\ arrived < MaxRequests
  /\ Free(h)
  /\ \A k \in Slots : k < h => ~Free(k)
  /\ arrived' = arrived + 1
  /\ req' = [req EXCEPT ![h] = request]

\* The same for the requests about contacts, of which a behaviour has up to
\* MaxContactRequests.
ContactRequestArrives(h, request) ==
  /\ boot = "listening"
  /\ arrived < MaxContactRequests
  /\ Free(h)
  /\ \A k \in Slots : k < h => ~Free(k)
  /\ arrived' = arrived + 1
  /\ req' = [req EXCEPT ![h] = request]

Request(kind, phoneNumber, name, body, sid) ==
  [kind |-> kind, phoneNumber |-> phoneNumber, name |-> name, body |-> body,
   sid |-> sid, mapping |-> NotAnObject]

\* if (!conversations[p]) conversations[p] = []; conversations[p].push(m)
Pushed(index, p, m) ==
  Put(index, p, Append(IF p \in DOMAIN index THEN index[p] ELSE <<>>, m))

Finish(h, response) ==
  /\ pc' = [pc EXCEPT ![h] = "done"]
  /\ resp' = [resp EXCEPT ![h] = response]

\* ---- POST /send-message

\* The handler, had it saved the contact name before the provider call.
SendMessage_ContactFirst(h, to, message, customerName) ==
  /\ Arrives(h, Request("send", to, customerName, message, <<None, 0>>))
  /\ IF twilioClient = None
       THEN Finish(h, JsonError(500))
       ELSE /\ pc' = [pc EXCEPT ![h] = "send:create"]
            /\ resp' = [resp EXCEPT ![h] = NoResponse]
  /\ customers' = IF Truthy(customerName)
                    THEN Put(customers, to, customerName) ELSE customers
  /\ local' = [local EXCEPT ![h] = NoLocal]
  /\ wbuf' = [wbuf EXCEPT ![h] = EmptyMap]
  /\ log' = [log EXCEPT ![h] = <<>>]
  /\ UNCHANGED <<conversations, customersFile, conversationsFile, events,
                 clock, nextSid>>
  /\ UNCHANGED bootVars

\* The handler, had it appended the message before the provider call.
SendMessage_AppendFirst(h, to, message, customerName) ==
  LET messageData ==
        [id |-> <<"out", nextSid>>, from |-> TwilioNumber, to |-> to,
         body |-> message, direction |-> "outbound",
         timestamp |-> DateOf(clock), status |-> "queued"]
  IN /\ Arrives(h, Request("send", to, customerName, message, <<None, 0>>))
     /\ IF twilioClient = None
          THEN Finish(h, JsonError(500))
          ELSE /\ pc' = [pc EXCEPT ![h] = "send:create"]
               /\ resp' = [resp EXCEPT ![h] = NoResponse]
     /\ conversations' = Pushed(conversations, to, messageData)
     /\ local' = [local EXCEPT ![h] = NoLocal]
     /\ wbuf' = [wbuf EXCEPT ![h] = EmptyMap]
     /\ log' = [log EXCEPT ![h] = <<Did("append", to, messageData, <<>>)>>]
     /\ UNCHANGED <<customers, customersFile, conversationsFile, events,
                    clock, nextSid>>
     /\ UNCHANGED bootVars

\* The handler, had it made the conversation before the provider call.
SendMessage_ConversationFirst(h, to, message, customerName) ==
  /\ Arrives(h, Request("send", to, customerName, message, <<None, 0>>))
  /\ IF twilioClient = None
       THEN Finish(h, JsonError(500))
       ELSE /\ pc' = [pc EXCEPT ![h] = "send:create"]
            /\ resp' = [resp EXCEPT ![h] = NoResponse]
  /\ conversations' =
       IF to \in DOMAIN conversations THEN conversations
       ELSE Put(conversations, to, <<>>)
  /\ local' = [local EXCEPT ![h] = NoLocal]
  /\ wbuf' = [wbuf EXCEPT ![h] = EmptyMap]
  /\ log' = [log EXCEPT ![h] = <<>>]
  /\ UNCHANGED <<customers, customersFile, conversationsFile, events, clock,
                 nextSid>>
  /\ UNCHANGED bootVars

\* The handler up to its await of twilioClient.messages.create.
SendMessage(h, to, message, customerName) ==
  /\ Arrives(h, Request("send", to, customerName, message, <<None, 0>>))
  /\ IF twilioClient = None
       THEN Finish(h, JsonError(500))
       ELSE /\ pc' = [pc EXCEPT ![h] = "send:create"]
            /\ resp' = [resp EXCEPT ![h] = NoResponse]
  /\ local' = [local EXCEPT ![h] = NoLocal]
  /\ wbuf' = [wbuf EXCEPT ![h] = EmptyMap]
  /\ log' = [log EXCEPT ![h] = <<>>]
  /\ UNCHANGED <<customers, conversations, customersFile, conversationsFile,
                 events, clock, nextSid>>
  /\ UNCHANGED bootVars

\* const messageData = {...}; conversations[to].push(messageData); and the
\* call of fs.writeFile(CONVERSATIONS_FILE, JSON.stringify(conversations)).
SendAppend(h, twilioMessage) ==
  LET to == req[h].phoneNumber
      messageData ==
        [id |-> twilioMessage.sid, from |-> twilioMessage.from,
         to |-> twilioMessage.to, body |-> twilioMessage.body,
         direction |-> "outbound", timestamp |-> DateOf(clock),
         status |-> twilioMessage.status]
  IN /\ conversations' = Pushed(conversations, to, messageData)
     /\ clock' = clock + 1
     /\ local' = [local EXCEPT ![h].twilioMessage = twilioMessage,
                               ![h].messageData = messageData]
     /\ wbuf' = [wbuf EXCEPT ![h] = StringifyConversations(conversations')]
     /\ pc' = [pc EXCEPT ![h] = "send:saveConversations"]

\* messages.create resolved: the contact is saved if a name came with the
\* request, else the message is appended at once.
SendCreated(h) ==
  /\ pc[h] = "send:create"
  /\ LET to == req[h].phoneNumber
         twilioMessage ==
           [sid |-> <<"out", nextSid>>, from |-> TwilioNumber,
            to |-> E164(to), body |-> req[h].body, status |-> "queued"]
         created == Did("create", to, NoMessage, req[h].body)
     IN /\ nextSid' = nextSid + 1
        /\ IF Truthy(req[h].name)
             THEN /\ customers' = Put(customers, to, req[h].name)
                  /\ wbuf' = [wbuf EXCEPT ![h] = StringifyCustomers(customers')]
                  /\ local' = [local EXCEPT ![h].twilioMessage = twilioMessage]
                  /\ pc' = [pc EXCEPT ![h] = "send:saveCustomers"]
                  /\ log' = [log EXCEPT ![h] =
                               @ \o <<created,
                                      Did("contact", to, NoMessage, <<req[h].name>>)>>]
                  /\ UNCHANGED <<conversations, clock>>
             ELSE /\ SendAppend(h, twilioMessage)
                  /\ log' = [log EXCEPT ![h] =
                               @ \o <<created,
                                      Did("append", to, local'[h].messageData, <<>>)>>]
                  /\ UNCHANGED customers
  /\ UNCHANGED <<arrived, req, resp, customersFile, conversationsFile, events>>
  /\ UNCHANGED bootVars

\* messages.create rejected, had the handler no try around it: the rejection
\* leaves the handler and the request is never answered.
SendCreateRejected_Unhandled(h) ==
  /\ pc[h] = "send:create"
  /\ pc' = [pc EXCEPT ![h] = "send:unhandled"]
  /\ UNCHANGED <<arrived, req, resp, customers, conversations, customersFile,
                 conversationsFile, local, wbuf, log, events, clock, nextSid>>
  /\ UNCHANGED bootVars

\* messages.create rejected: the catch answers 500.
SendCreateRejected(h) ==
  /\ pc[h] = "send:create"
  /\ Finish(h, JsonError(500))
  /\ UNCHANGED <<arrived, req, customers, conversations, customersFile, conversationsFile,
                 local, wbuf, log, events, clock, nextSid>>
  /\ UNCHANGED bootVars

\* fs.writeFile(CUSTOMERS_FILE) resolved: the message is appended.
SendCustomersSaved(h) ==
  /\ pc[h] = "send:saveCustomers"
  /\ customersFile' = FileOf(wbuf[h])
  /\ SendAppend(h, local[h].twilioMessage)
  /\ log' = [log EXCEPT ![h] =
               @ \o <<Did("saveCustomers", req[h].phoneNumber, NoMessage, <<>>),
                      Did("append", req[h].phoneNumber, local'[h].messageData, <<>>)>>]
  /\ UNCHANGED <<arrived, req, resp, customers, conversationsFile, events, nextSid>>
  /\ UNCHANGED bootVars

\* fs.writeFile(CUSTOMERS_FILE) rejected: the catch answers 500.
SendCustomersSaveRejected(h) ==
  /\ pc[h] = "send:saveCustomers"
  /\ customersFile' \in {customersFile, Unreadable}
  /\ Finish(h, JsonError(500))
  /\ UNCHANGED <<arrived, req, customers, conversations, conversationsFile, local, wbuf,
                 log, events, clock, nextSid>>
  /\ UNCHANGED bootVars

\* fs.writeFile(CONVERSATIONS_FILE) resolved: io.emit and res.json.
SendConversationsSaved(h) ==
  /\ pc[h] = "send:saveConversations"
  /\ conversationsFile' = FileOf(wbuf[h])
  /\ LET e == Event("new-message", req[h].phoneNumber, local[h].messageData)
     IN /\ events' = Append(events, e)
        /\ log' = [log EXCEPT ![h] =
                     @ \o <<Did("save", req[h].phoneNumber, NoMessage, <<>>),
                            Emitted(e)>>]
  /\ Finish(h, JsonSuccess(StringifyMessage(local[h].messageData)))
  /\ UNCHANGED <<arrived, req, customers, conversations, customersFile, local, wbuf,
                 clock, nextSid>>
  /\ UNCHANGED bootVars

\* fs.writeFile(CONVERSATIONS_FILE) rejected: the catch answers 500.
SendConversationsSaveRejected(h) ==
  /\ pc[h] = "send:saveConversations"
  /\ conversationsFile' \in {conversationsFile, Unreadable}
  /\ Finish(h, JsonError(500))
  /\ UNCHANGED <<arrived, req, customers, conversations, customersFile, local, wbuf, log,
                 events, clock, nextSid>>
  /\ UNCHANGED bootVars

\* ---- POST /webhook

\* res.type('text/xml'); res.send(TwiML) in the first variant, res.send('OK') or
\* res.send('Error') in the second; the catch sets status 500 in both.
WebhookResponse(v, status) ==
  [NoResponse EXCEPT
     !.status = status,
     !.type = IF v = 1 THEN "text/xml" ELSE "text/html",
     !.text = IF v = 1 THEN "<Response></Response>"
              ELSE IF status = 200 THEN "OK" ELSE "Error"]

\* The forwarded text, had it always named the sender by its number.
ForwardMessage_RawNumber(contacts, From, Body) ==
  <<"SMS from ", From, ": ">> \o Body

\* `SMS from ${customers[From] || From}: ${Body}`
ForwardMessage(contacts, From, Body) ==
  LET customerName ==
        OrElse(IF From \in DOMAIN contacts THEN contacts[From] ELSE None, From)
  IN <<"SMS from ", customerName, ": ">> \o Body

\* process.env.OWNER_PHONE_NUMBER || settings.ownerPhoneNumber
OwnerPhone == OrElse(env.ownerPhoneNumber, settings.ownerPhoneNumber)

\* The handler up to its await of fs.writeFile(CONVERSATIONS_FILE): the inbound
\* message is appended before anything is awaited.
Webhook(h, From, Body, MessageSid) ==
  /\ Arrives(h, Request("webhook", From, None, Body, MessageSid))
  /\ LET messageData ==
           [id |-> MessageSid, from |-> From, to |-> TwilioNumber, body |-> Body,
            direction |-> "inbound", timestamp |-> DateOf(clock),
            status |-> "received"]
     IN /\ conversations' = Pushed(conversations, From, messageData)
        /\ clock' = clock + 1
        /\ local' = [local EXCEPT ![h] = [NoLocal EXCEPT !.messageData = messageData]]
        /\ wbuf' = [wbuf EXCEPT ![h] = StringifyConversations(conversations')]
        /\ log' = [log EXCEPT ![h] = <<Did("append", From, messageData, <<>>)>>]
  /\ pc' = [pc EXCEPT ![h] = "webhook:save"]
  /\ resp' = [resp EXCEPT ![h] = NoResponse]
  /\ UNCHANGED <<customers, customersFile, conversationsFile, events, nextSid>>
  /\ UNCHANGED bootVars

\* io.emit('new-message', ...) and the acknowledgment.
WebhookPublish(h) ==
  LET e == Event("new-message", req[h].phoneNumber, local[h].messageData)
  IN /\ events' = Append(events, e)
     /\ Finish(h, WebhookResponse(variant, 200))

\* fs.writeFile resolved: the forward to the owner is sent if an owner number
\* is configured, else the event is published and the webhook acknowledged.
WebhookSaved(h) ==
  /\ pc[h] = "webhook:save"
  /\ conversationsFile' = FileOf(wbuf[h])
  /\ LET saved == Did("save", req[h].phoneNumber, NoMessage, <<>>)
         e == Event("new-message", req[h].phoneNumber, local[h].messageData)
     IN IF Truthy(OwnerPhone)
          THEN /\ local' = [local EXCEPT ![h].forwardMessage =
                              ForwardMessage(customers, req[h].phoneNumber,
                                             req[h].body)]
               /\ log' = [log EXCEPT ![h] = @ \o <<saved>>]
               /\ IF twilioClient = None
                    THEN Finish(h, WebhookResponse(variant, 500))
                    ELSE pc' = [pc EXCEPT ![h] = "webhook:forward"]
                         /\ UNCHANGED resp
               /\ UNCHANGED events
          ELSE /\ WebhookPublish(h)
               /\ log' = [log EXCEPT ![h] = @ \o <<saved, Emitted(e)>>]
               /\ UNCHANGED local
  /\ UNCHANGED <<arrived, req, customers, conversations, customersFile, wbuf, clock,
                 nextSid>>
  /\ UNCHANGED bootVars

\* fs.writeFile rejected: the catch answers with status 500.
WebhookSaveRejected(h) ==
  /\ pc[h] = "webhook:save"
  /\ conversationsFile' \in {conversationsFile, Unreadable}
  /\ Finish(h, WebhookResponse(variant, 500))
  /\ UNCHANGED <<arrived, req, customers, conversations, customersFile, local, wbuf, log,
                 events, clock, nextSid>>
  /\ UNCHANGED bootVars

\* The forward's messages.create resolved.
WebhookForwarded(h) ==
  /\ pc[h] = "webhook:forward"
  /\ nextSid' = nextSid + 1
  /\ WebhookPublish(h)
  /\ log' = [log EXCEPT ![h] =
               @ \o <<Did("create", OwnerPhone, NoMessage, local[h].forwardMessage),
                      Emitted(Event("new-message", req[h].phoneNumber,
                                    local[h].messageData))>>]
  /\ UNCHANGED <<arrived, req, customers, conversations, customersFile, conversationsFile,
                 local, wbuf, clock>>
  /\ UNCHANGED bootVars

\* The forward's messages.create rejected: the catch answers with status 500.
WebhookForwardRejected(h) ==
  /\ pc[h] = "webhook:forward"
  /\ Finish(h, WebhookResponse(variant, 500))
  /\ UNCHANGED <<arrived, req, customers, conversations, customersFile, conversationsFile,
                 local, wbuf, log, events, clock, nextSid>>
  /\ UNCHANGED bootVars

\* ---- DELETE /conversations/:phoneNumber

\* The handler, had it answered a delete of an absent number with success.
DeleteConversation_Idempotent(h, phoneNumber) ==
  /\ Arrives(h, Request("delete", phoneNumber, None, <<>>, <<None, 0>>))
  /\ IF phoneNumber \in DOMAIN conversations
       THEN /\ conversations' = Remove(conversations, phoneNumber)
            /\ wbuf' = [wbuf EXCEPT ![h] = StringifyConversations(conversations')]
            /\ log' = [log EXCEPT ![h] =
                         <<Did("remove", phoneNumber, NoMessage, <<>>)>>]
            /\ pc' = [pc EXCEPT ![h] = "delete:save"]
            /\ resp' = [resp EXCEPT ![h] = NoResponse]
       ELSE /\ Finish(h, JsonSuccess(NoMessage))
            /\ wbuf' = [wbuf EXCEPT ![h] = EmptyMap]
            /\ log' = [log EXCEPT ![h] = <<>>]
            /\ UNCHANGED conversations
  /\ local' = [local EXCEPT ![h] = NoLocal]
  /\ UNCHANGED <<customers, customersFile, conversationsFile, events, clock,
                 nextSid>>
  /\ UNCHANGED bootVars

\* The handler up to its await of fs.writeFile, or its 404.
DeleteConversation(h, phoneNumber) ==
  /\ Arrives(h, Request("delete", phoneNumber, None, <<>>, <<None, 0>>))
  /\ IF phoneNumber \in DOMAIN conversations
       THEN /\ conversations' = Remove(conversations, phoneNumber)
            /\ wbuf' = [wbuf EXCEPT ![h] = StringifyConversations(conversations')]
            /\ log' = [log EXCEPT ![h] =
                         <<Did("remove", phoneNumber, NoMessage, <<>>)>>]
            /\ pc' = [pc EXCEPT ![h] = "delete:save"]
            /\ resp' = [resp EXCEPT ![h] = NoResponse]
       ELSE /\ Finish(h, JsonError(404))
            /\ wbuf' = [wbuf EXCEPT ![h] = EmptyMap]
            /\ log' = [log EXCEPT ![h] = <<>>]
            /\ UNCHANGED conversations
  /\ local' = [local EXCEPT ![h] = NoLocal]
  /\ UNCHANGED <<customers, customersFile, conversationsFile, events, clock,
                 nextSid>>
  /\ UNCHANGED bootVars

\* fs.writeFile resolved: io.emit('conversation-deleted') and success.
DeleteSaved(h) ==
  /\ pc[h] = "delete:save"
  /\ conversationsFile' = FileOf(wbuf[h])
  /\ LET e == Event("conversation-deleted", req[h].phoneNumber, NoMessage)
     IN /\ events' = Append(events, e)
        /\ log' = [log EXCEPT ![h] =
                     @ \o <<Did("save", req[h].phoneNumber, NoMessage, <<>>),
                            Emitted(e)>>]
  /\ Finish(h, JsonSuccess(NoMessage))
  /\ UNCHANGED <<arrived, req, customers, conversations, customersFile, local, wbuf,
                 clock, nextSid>>
  /\ UNCHANGED bootVars

\* fs.writeFile rejected: the catch answers 500.
DeleteSaveRejected(h) ==
  /\ pc[h] = "delete:save"
  /\ conversationsFile' \in {conversationsFile, Unreadable}
  /\ Finish(h, JsonError(500))
  /\ UNCHANGED <<arrived, req, customers, conversations, customersFile, local, wbuf, log,
                 events, clock, nextSid>>
  /\ UNCHANGED bootVars

\* ---- GET /conversations

\* res.json(conversations)
GetConversations(h) ==
  /\ Arrives(h, Request("list", None, None, <<>>, <<None, 0>>))
  /\ Finish(h, [NoResponse EXCEPT
                  !.status = 200, !.type = "application/json",
                  !.index = StringifyConversations(conversations)])
  /\ local' = [local EXCEPT ![h] = NoLocal]
  /\ wbuf' = [wbuf EXCEPT ![h] = EmptyMap]
  /\ log' = [log EXCEPT ![h] = <<>>]
  /\ UNCHANGED <<customers, conversations, customersFile, conversationsFile,
                 events, clock, nextSid>>
  /\ UNCHANGED bootVars

\* ---- GET /ping

\* A request for /ping is dispatched to a free slot; it is answered in the
\* step that takes it and is not counted among the requests of a behaviour.
PingArrives(h) ==
  /\ boot = "listening"
  /\ Free(h)
  /\ \A k \in Slots : k < h => ~Free(k)
  /\ req' = [req EXCEPT ![h] = Request("ping", None, None, <<>>, <<None, 0>>)]

\* The handler, had it announced each ping to the connected sockets.
Ping_Announced(h) ==
  /\ PingArrives(h)
  /\ Finish(h, [NoResponse EXCEPT
                  !.status = 200, !.type = "application/json", !.text = "ok",
                  !.timestamp = IsoOf(DateOf(clock))])
  /\ events' = Append(events, Event("ping", None, NoMessage))
  /\ local' = [local EXCEPT ![h] = NoLocal]
  /\ wbuf' = [wbuf EXCEPT ![h] = EmptyMap]
  /\ log' = [log EXCEPT ![h] = <<>>]
  /\ UNCHANGED <<arrived, customers, conversations, customersFile,
                 conversationsFile, clock, nextSid>>
  /\ UNCHANGED bootVars

\* res.json({ status: 'ok', timestamp: new Date() })
Ping(h) ==
  /\ PingArrives(h)
  /\ Finish(h, [NoResponse EXCEPT
                  !.status = 200, !.type = "application/json", !.text = "ok",
                  !.timestamp = IsoOf(DateOf(clock))])
  /\ local' = [local EXCEPT ![h] = NoLocal]
  /\ wbuf' = [wbuf EXCEPT ![h] = EmptyMap]
  /\ log' = [log EXCEPT ![h] = <<>>]
  /\ UNCHANGED <<arrived, customers, conversations, customersFile,
                 conversationsFile, events, clock, nextSid>>
  /\ UNCHANGED bootVars

\* ---- contacts

\* app.post('/customers') up to its await of fs.writeFile; a body without a
\* name leaves name undefined.
PostCustomers(h, phoneNumber, name) ==
  /\ ContactRequestArrives(h, Request("contact", phoneNumber, name, <<>>,
                                      <<None, 0>>))
  /\ customers' = Put(customers, phoneNumber, name)
  /\ wbuf' = [wbuf EXCEPT ![h] = StringifyCustomers(customers')]
  /\ log' = [log EXCEPT ![h] =
               <<Did("contact", phoneNumber, NoMessage, <<name>>)>>]
  /\ pc' = [pc EXCEPT ![h] = "customers:save"]
  /\ resp' = [resp EXCEPT ![h] = NoResponse]
  /\ local' = [local EXCEPT ![h] = NoLocal]
  /\ UNCHANGED <<conversations, customersFile, conversationsFile, events,
                 clock, nextSid>>
  /\ UNCHANGED bootVars

\* fs.writeFile(CUSTOMERS_FILE) resolved: res.json({ success: true }).
PostCustomersSaved(h) ==
  /\ pc[h] = "customers:save"
  /\ customersFile' = FileOf(wbuf[h])
  /\ Finish(h, JsonSuccess(NoMessage))
  /\ log' = [log EXCEPT ![h] =
               Append(@, Did("saveCustomers", req[h].phoneNumber, NoMessage,
                             <<>>))]
  /\ UNCHANGED <<arrived, req, customers, conversations, conversationsFile,
                 local, wbuf, events, clock, nextSid>>
  /\ UNCHANGED bootVars

\* fs.writeFile(CUSTOMERS_FILE) rejected: the catch answers 500.
PostCustomersSaveRejected(h) ==
  /\ pc[h] = "customers:save"
  /\ customersFile' \in {customersFile, Unreadable}
  /\ Finish(h, JsonError(500))
  /\ UNCHANGED <<arrived, req, customers, conversations, conversationsFile,
                 local, wbuf, log, events, clock, nextSid>>
  /\ UNCHANGED bootVars

\* A handler that answers with the contact map and changes nothing.
AnswerContacts(h, kind) ==
  /\ ContactRequestArrives(h, Request(kind, None, None, <<>>, <<None, 0>>))
  /\ Finish(h, [NoResponse EXCEPT
                  !.status = 200, !.type = "application/json",
                  !.contacts = StringifyCustomers(customers)])
  /\ local' = [local EXCEPT ![h] = NoLocal]
  /\ wbuf' = [wbuf EXCEPT ![h] = EmptyMap]
  /\ log' = [log EXCEPT ![h] = <<>>]
  /\ UNCHANGED <<customers, conversations, customersFile, conversationsFile,
                 events, clock, nextSid>>
  /\ UNCHANGED bootVars

\* app.get('/customers')
GetCustomers(h) == AnswerContacts(h, "contacts")

\* app.get('/export-customers'), a route of the first variant: the contact
\* map as a document to download.
ExportCustomers(h) ==
  /\ variant = 1
  /\ AnswerContacts(h, "export")

\* app.post('/import-customers'), a route of the first variant, up to its
\* await of fs.writeFile: 400 for a body that typeof does not call an object
\* or that is null, else Object.assign of the body's properties.
ImportCustomers(h, importedCustomers) ==
  /\ variant = 1
  /\ ContactRequestArrives(h, [Request("import", None, None, <<>>, <<None, 0>>)
                                 EXCEPT !.mapping = importedCustomers])
  /\ IF importedCustomers.object
       THEN /\ customers' = Merge(customers, importedCustomers.data)
            /\ wbuf' = [wbuf EXCEPT ![h] = StringifyCustomers(customers')]
            /\ log' = [log EXCEPT ![h] =
                         <<Did("merge", None, NoMessage,
                               <<Cardinality(DOMAIN customers')>>)>>]
            /\ pc' = [pc EXCEPT ![h] = "import:save"]
            /\ resp' = [resp EXCEPT ![h] = NoResponse]
       ELSE /\ Finish(h, JsonError(400))
            /\ wbuf' = [wbuf EXCEPT ![h] = EmptyMap]
            /\ log' = [log EXCEPT ![h] = <<>>]
            /\ UNCHANGED customers
  /\ local' = [local EXCEPT ![h] = NoLocal]
  /\ UNCHANGED <<conversations, customersFile, conversationsFile, events,
                 clock, nextSid>>
  /\ UNCHANGED bootVars

\* fs.writeFile(CUSTOMERS_FILE) resolved: the counts are taken now, imported
\* from the request body and total from the contact map as it is.
ImportSaved(h) ==
  /\ pc[h] = "import:save"
  /\ customersFile' = FileOf(wbuf[h])
  /\ Finish(h, [JsonSuccess(NoMessage) EXCEPT
                  !.imported = Cardinality(DOMAIN req[h].mapping.data),
                  !.total = Cardinality(DOMAIN customers)])
  /\ log' = [log EXCEPT ![h] =
               Append(@, Did("saveCustomers", None, NoMessage, <<>>))]
  /\ UNCHANGED <<arrived, req, customers, conversations, conversationsFile,
                 local, wbuf, events, clock, nextSid>>
  /\ UNCHANGED bootVars

\* fs.writeFile(CUSTOMERS_FILE) rejected: the catch answers 500.
ImportSaveRejected(h) ==
  /\ pc[h] = "import:save"
  /\ customersFile' \in {customersFile, Unreadable}
  /\ Finish(h, JsonError(500))
  /\ UNCHANGED <<arrived, req, customers, conversations, conversationsFile,
                 local, wbuf, log, events, clock, nextSid>>
  /\ UNCHANGED bootVars

\* --------------------------------------------------------------- sessions

\* A new socket of session s, had the server replayed the published events
\* to it.
Connect_Replay(s) ==
  /\ boot = "listening"
  /\ s \notin connected
  /\ connected' = connected \cup {s}
  /\ events' = [i \in 1 .. Len(events) |->
                  [events[i] EXCEPT !.sessions = @ \cup {s}]]
  /\ UNCHANGED <<serverVars, clientVars>>

\* io.on('connection'): a socket of session s connects; the handler logs it.
Connect(s) ==
  /\ boot = "listening"
  /\ s \notin connected
  /\ connected' = connected \cup {s}
  /\ UNCHANGED <<serverVars, events, clientVars>>

\* socket.on('disconnect'): the socket of session s is gone.
Disconnect(s) ==
  /\ boot = "listening"
  /\ s \in connected
  /\ connected' = connected \ {s}
  /\ UNCHANGED <<serverVars, events, clientVars>>

\* --------------------------------------------------------- dashboard page

\* The session of the socket that the page opens with io().
ClientSession == "S1"

\* The packets the server has sent to the page's socket, in the order sent;
\* the socket delivers them in that order.
Received == SelectSeq(events, LAMBDA e : ClientSession \in e.sessions)

\* renderConversations reads the last message of every conversation and
\* throws on a conversation without messages.
Renders(c) == \A p \in DOMAIN c : Len(c[p]) > 0

\* The items in the list once renderConversations has run, or has thrown
\* after appending some of them.
RenderedLists(c) ==
  IF Renders(c) THEN {DOMAIN c}
  ELSE SUBSET { p \in DOMAIN c : Len(c[p]) > 0 }

\* new SMSDashboard(): the constructor, up to the first await of loadData (the
\* fetch of /conversations); io() starts to connect the socket.
OpenPage ==
  /\ boot = "listening"
  /\ page = "closed"
  /\ page' = "loading"
  /\ mirror' = EmptyMap
  /\ currentConversation' = None
  /\ unreadConversations' = {}
  /\ UNCHANGED <<serverVars, events, connected, snapshot, rendered, handled>>

\* The socket of the page connects.
ConnectPage ==
  /\ page # "closed"
  /\ boot = "listening"
  /\ ClientSession \notin connected
  /\ connected' = connected \cup {ClientSession}
  /\ UNCHANGED <<serverVars, events, clientVars>>

\* app.get('/conversations') answers the fetch of loadData with the index as
\* it is; the response is on its way to the page.
ConversationsAnswered ==
  /\ boot = "listening"
  /\ page = "loading"
  /\ snapshot' = StringifyConversations(conversations)
  /\ page' = "fetched"
  /\ UNCHANGED <<serverVars, events, connected, mirror, rendered,
                 currentConversation, unreadConversations, handled>>

\* loadData: this.conversations = await conversationsResponse.json(), then the
\* fetch of /customers is awaited.
ConversationsLoaded ==
  /\ page = "fetched"
  /\ mirror' = snapshot
  /\ snapshot' = EmptyMap
  /\ page' = "loaded"
  /\ UNCHANGED <<serverVars, events, connected, rendered, currentConversation,
                 unreadConversations, handled>>

\* loadData: the contacts have arrived; renderConversations().
DataLoaded ==
  /\ page = "loaded"
  /\ rendered' \in RenderedLists(mirror)
  /\ page' = "ready"
  /\ UNCHANGED <<serverVars, events, connected, snapshot, mirror,
                 currentConversation, unreadConversations, handled>>

\* handleNewMessage, had it marked every inbound message unread.
HandleNewMessage_AlwaysUnread(data) ==
  LET phoneNumber == data.phoneNumber
      message == StringifyMessage(data.message)
      pushed == Pushed(mirror, phoneNumber, message)
      marked == IF message.direction = "inbound"
                  THEN unreadConversations \cup {phoneNumber}
                  ELSE unreadConversations
  IN /\ mirror' = pushed
     /\ rendered' \in RenderedLists(pushed)
     /\ IF ~Renders(pushed)
          THEN UNCHANGED <<currentConversation, unreadConversations>>
          ELSE IF Len(pushed[phoneNumber]) = 1
                 THEN /\ currentConversation' = phoneNumber
                      /\ unreadConversations' = marked \ {phoneNumber}
                 ELSE /\ unreadConversations' = marked
                      /\ UNCHANGED currentConversation

\* handleNewMessage, had it not selected a conversation on its first message.
HandleNewMessage_NoAutoSelect(data) ==
  LET phoneNumber == data.phoneNumber
      message == StringifyMessage(data.message)
      pushed == Pushed(mirror, phoneNumber, message)
      marked == IF /\ currentConversation # phoneNumber
                   /\ message.direction = "inbound"
                  THEN unreadConversations \cup {phoneNumber}
                  ELSE unreadConversations
  IN /\ mirror' = pushed
     /\ rendered' \in RenderedLists(pushed)
     /\ IF ~Renders(pushed)
          THEN UNCHANGED <<currentConversation, unreadConversations>>
          ELSE /\ unreadConversations' = marked
               /\ UNCHANGED currentConversation

\* handleNewMessage(data): the message, as JSON carried it, is pushed on the
\* mirror and the list rendered; a throw of renderConversations ends the
\* handler there. Else the number is marked unread if the message is inbound
\* and its conversation is not the open one, and a conversation that now has
\* one message is selected (selectConversation: opened and marked read).
HandleNewMessage(data) ==
  LET phoneNumber == data.phoneNumber
      message == StringifyMessage(data.message)
      pushed == Pushed(mirror, phoneNumber, message)
      marked == IF /\ currentConversation # phoneNumber
                   /\ message.direction = "inbound"
                  THEN unreadConversations \cup {phoneNumber}
                  ELSE unreadConversations
  IN /\ mirror' = pushed
     /\ rendered' \in RenderedLists(pushed)
     /\ IF ~Renders(pushed)
          THEN UNCHANGED <<currentConversation, unreadConversations>>
          ELSE IF Len(pushed[phoneNumber]) = 1
                 THEN /\ currentConversation' = phoneNumber
                      /\ unreadConversations' = marked \ {phoneNumber}
                 ELSE /\ unreadConversations' = marked
                      /\ UNCHANGED currentConversation

\* The local effect of a deletion: delete this.conversations[phoneNumber],
\* unreadConversations.delete, the open conversation cleared if it is the
\* deleted one, renderConversations().
Forget(phoneNumber) ==
  /\ mirror' = Remove(mirror, phoneNumber)
  /\ unreadConversations' = unreadConversations \ {phoneNumber}
  /\ currentConversation' =
       IF currentConversation = phoneNumber THEN None ELSE currentConversation
  /\ rendered' \in RenderedLists(mirror')

\* handleConversationDeleted(data)
HandleConversationDeleted(data) == Forget(data.phoneNumber)

\* The socket delivers the next packet and the page runs the handler bound to
\* its event.
HandleEvent ==
  /\ page # "closed"
  /\ handled < Len(Received)
  /\ LET data == Received[handled + 1]
     IN IF data.type = "new-message"
          THEN HandleNewMessage(data)
          ELSE HandleConversationDeleted(data)
  /\ handled' = handled + 1
  /\ UNCHANGED <<serverVars, events, connected, page, snapshot>>

\* selectConversation(phoneNumber), by a click on an item of the list.
SelectConversation(phoneNumber) ==
  /\ page # "closed"
  /\ phoneNumber \in rendered
  /\ currentConversation' = phoneNumber
  /\ unreadConversations' = unreadConversations \ {phoneNumber}
  /\ UNCHANGED <<serverVars, events, connected, page, snapshot, mirror,
                 rendered, handled>>

\* startNewConversation()
StartNewConversation ==
  /\ page # "closed"
  /\ currentConversation' = None
  /\ UNCHANGED <<serverVars, events, connected, page, snapshot, mirror,
                 rendered, unreadConversations, handled>>

\* The slot holds no response of a DELETE request that the page has yet to
\* read; a slot is not taken by another request before.
Read(h) == ~(pc[h] = "done" /\ req[h].kind = "delete")

\* deleteConversation(phoneNumber), by a click on the delete button of an item
\* of the list: the DELETE request reaches the server.
ClickDelete(h, phoneNumber) ==
  /\ page # "closed"
  /\ phoneNumber \in rendered
  /\ Read(h)
  /\ DeleteConversation(h, phoneNumber)

\* deleteConversation: the response of the DELETE request has arrived; on
\* success the page forgets the conversation.
DeleteAnswered(h) ==
  /\ page # "closed"
  /\ req[h].kind = "delete"
  /\ pc[h] = "done"
  /\ pc' = [pc EXCEPT ![h] = "idle"]
  /\ IF resp[h].text = "success"
       THEN Forget(req[h].phoneNumber)
       ELSE UNCHANGED <<mirror, rendered, currentConversation,
                        unreadConversations>>
  /\ UNCHANGED <<variant, env, providerMessages, settingsFile, customersFile,
                 conversationsFile, settings, customers, conversations,
                 twilioClient, boot, listed, arrived, req, resp, local, wbuf,
                 log, clock, nextSid, events, connected, page, snapshot,
                 handled>>

\* ------------------------------------------------------------ specifications

\* The process right after its module-level code ran (lines 35-38), in an
\* environment given by the server variant, process.env, the provider's history
\* and the three files.
ConstructedAt(v, e, history, sf, cf, vf, now) ==
  /\ variant = v
  /\ env = e
  /\ providerMessages = history
  /\ settingsFile = sf
  /\ customersFile = cf
  /\ conversationsFile = vf
  /\ settings = [ownerPhoneNumber |-> None]
  /\ customers = EmptyMap
  /\ conversations = EmptyMap
  /\ twilioClient = None
  /\ boot = "readSettings"
  /\ listed = None
  /\ arrived = 0
  /\ pc = [h \in Slots |-> "idle"]
  /\ req = [h \in Slots |-> NoRequest]
  /\ resp = [h \in Slots |-> NoResponse]
  /\ local = [h \in Slots |-> NoLocal]
  /\ wbuf = [h \in Slots |-> EmptyMap]
  /\ log = [h \in Slots |-> <<>>]
  /\ events = <<>>
  /\ clock = now
  /\ nextSid = 1
  /\ connected = {}
  /\ page = "closed"
  /\ snapshot = EmptyMap
  /\ mirror = EmptyMap
  /\ rendered = {}
  /\ currentConversation = None
  /\ unreadConversations = {}
  /\ handled = 0

\* The same with a server clock that is ahead of every timestamp of the
\* provider's history.
Constructed(v, e, history, sf, cf, vf) ==
  ConstructedAt(v, e, history, sf, cf, vf, MaxTime + 1)

SettingsFiles == {Unreadable, FileOf([ownerPhoneNumber |-> OwnerNumber])}

\* A conversations file left by an earlier run of the server, whose messages
\* the provider may have dropped from its history since.
Snapshots ==
  {Unreadable} \cup
  { FileOf(StringifyConversations(Rebuilt(1, <<message>>))) :
      message \in { m \in ProviderMessagesAt(0) :
                      m.dateCreated = DateOf(1) /\ m.to = TwilioNumber } }

\* An older conversation with the first customer, as the provider lists it:
\* newest first.
History1 ==
  << [sid |-> <<"hist", 1>>, from |-> TwilioNumber, to |-> "P1", body |-> Body1,
      direction |-> "outbound-api", dateCreated |-> DateOf(MaxTime),
      status |-> "delivered"],
     [sid |-> <<"hist", 2>>, from |-> "P1", to |-> TwilioNumber, body |-> Body1,
      direction |-> "inbound", dateCreated |-> DateOf(1), status |-> "received"] >>

\* The identifier of an inbound message from From: one the provider has
\* delivered before (it delivers the same message again), or a new one.
InboundSids(From) ==
  { req[h].sid : h \in { k \in Slots : /\ req[k].kind = "webhook"
                                       /\ req[k].phoneNumber = From } }
    \cup { <<"in", arrived + 1>> }

\* The owner number in process.env and the settings file: the owner configured
\* in the settings, no owner at all, and no settings file (so that no provider
\* client is made) with the owner in process.env.
Deployments ==
  { <<None, FileOf([ownerPhoneNumber |-> OwnerNumber])>>,
    <<None, FileOf([ownerPhoneNumber |-> None])>>,
    <<OwnerNumber, Unreadable>> }

\* The server starts with a contacts file that holds one contact without a
\* name, no conversations file, and a provider that holds History1.
Init ==
  \E v \in {1, 2}, d \in Deployments :
    Constructed(v, [ownerPhoneNumber |-> d[1], credentials |-> TRUE], History1,
                d[2], FileOf([p \in {"P1"} |-> ""]), Unreadable)

Startup ==
  \/ ReadSettings
  \/ ReadCustomers
  \/ ListResolved
  \/ ListRejected
  \/ ResyncSaved
  \/ ResyncSaveRejected
  \/ ReadConversations
  \/ Listen

Handlers ==
  \E h \in Slots :
    \/ \E to \in Phones, customerName \in {None, "N1"} :
         SendMessage(h, to, Body1, customerName)
    \/ SendCreated(h)
    \/ SendCreateRejected(h)
    \/ SendCustomersSaved(h)
    \/ SendCustomersSaveRejected(h)
    \/ SendConversationsSaved(h)
    \/ SendConversationsSaveRejected(h)
    \/ \E From \in Phones : \E MessageSid \in InboundSids(From) :
         Webhook(h, From, Body1, MessageSid)
    \/ WebhookSaved(h)
    \/ WebhookSaveRejected(h)
    \/ WebhookForwarded(h)
    \/ WebhookForwardRejected(h)
    \/ \E phoneNumber \in Phones : DeleteConversation(h, phoneNumber)
    \/ DeleteSaved(h)
    \/ DeleteSaveRejected(h)
    \/ GetConversations(h)

Next == Startup \/ Handlers

Spec == Init /\ [][Next]_vars

\* The startup sequence alone, over every environment within the bounds.
InitStartup ==
  \E v \in {1, 2},
     c \in BOOLEAN,
     history \in Histories,
     sf \in SettingsFiles,
     cf \in {Unreadable, FileOf([p \in {"P1"} |-> "N1"])},
     vf \in Snapshots :
    Constructed(v, [ownerPhoneNumber |-> None, credentials |-> c], history,
                sf, cf, vf)

NextStartup == Startup

SpecStartup == InitStartup /\ [][NextStartup]_vars

\* Startup under every combination of what can fail in it: the settings file
\* and the contacts file readable or not, the credentials present or not, a
\* conversations file or none; the provider query and the write of the
\* conversations file resolve or reject as steps of startup.
InitStartupLive ==
  \E v \in {1, 2},
     c \in BOOLEAN,
     history \in {<<>>, History1},
     sf \in SettingsFiles,
     cf \in {Unreadable, FileOf([p \in {"P1"} |-> "N1"])},
     vf \in Snapshots :
    Constructed(v, [ownerPhoneNumber |-> None, credentials |-> c], history,
                sf, cf, vf)

\* Every file operation and every provider query that startup awaits settles,
\* so a step of startup that can be taken is taken.
SpecStartupLive ==
  InitStartupLive /\ [][NextStartup]_vars /\ WF_vars(NextStartup)

\* The server with sessions that connect and disconnect while webhooks and
\* deletes publish events; no owner number is configured.
InitSessions ==
  Constructed(1, [ownerPhoneNumber |-> None, credentials |-> TRUE], History1,
              FileOf([ownerPhoneNumber |-> None]), Unreadable, Unreadable)

NextSessions ==
  \/ Startup
  \/ \E s \in Sessions : Connect(s) \/ Disconnect(s)
  \/ \E h \in Slots :
       \/ \E From \in Phones : \E MessageSid \in InboundSids(From) :
            Webhook(h, From, Body1, MessageSid)
       \/ WebhookSaved(h)
       \/ WebhookSaveRejected(h)
       \/ \E phoneNumber \in Phones : DeleteConversation(h, phoneNumber)
       \/ DeleteSaved(h)
       \/ DeleteSaveRejected(h)

SpecSessions == InitSessions /\ [][NextSessions]_vars

\* The documents a user may import: new names for some of the customers.
Imports == { [p \in S |-> "N2"] : S \in SUBSET Phones }

\* The arrays a user may import instead of a mapping.
ImportedArrays == {<<>>, <<"N2">>}

\* The documents an export has answered with and that the user still has.
Exported ==
  { resp[g].contacts :
      g \in { k \in Slots : req[k].kind = "export" /\ pc[k] = "done" } }

\* The first variant with the requests about contacts: the contacts file
\* holds one named contact when the server starts.
InitContacts ==
  Constructed(1, [ownerPhoneNumber |-> None, credentials |-> TRUE], History1,
              FileOf([ownerPhoneNumber |-> None]),
              FileOf([p \in {"P1"} |-> "N1"]), Unreadable)

NextContacts ==
  \/ Startup
  \/ \E h \in Slots :
       \/ \E phoneNumber \in Phones, name \in {None, "N1"} :
            PostCustomers(h, phoneNumber, name)
       \/ PostCustomersSaved(h)
       \/ PostCustomersSaveRejected(h)
       \/ GetCustomers(h)
       \/ ExportCustomers(h)
       \/ \E document \in Imports \cup Exported :
            ImportCustomers(h, ObjectOf(document))
       \/ ImportCustomers(h, NotAnObject)
       \/ \E document \in ImportedArrays : ImportCustomers(h, ArrayOf(document))
       \/ ImportSaved(h)
       \/ ImportSaveRejected(h)

SpecContacts == InitContacts /\ [][NextContacts]_vars

\* The server in the field: users type numbers as they like, and the server
\* clock may be behind the provider's. No owner number is configured and no
\* contact name is sent.
InitField ==
  \E v \in {1, 2}, now \in {1, MaxTime + 1} :
    ConstructedAt(v, [ownerPhoneNumber |-> None, credentials |-> TRUE],
                  History1, FileOf([ownerPhoneNumber |-> None]), Unreadable,
                  Unreadable, now)

NextField ==
  \/ Startup
  \/ \E h \in Slots :
       \/ \E to \in Dialled : SendMessage(h, to, Body1, None)
       \/ SendCreated(h)
       \/ SendCreateRejected(h)
       \/ SendConversationsSaved(h)
       \/ SendConversationsSaveRejected(h)
       \/ \E From \in Phones : \E MessageSid \in InboundSids(From) :
            Webhook(h, From, Body1, MessageSid)
       \/ WebhookSaved(h)
       \/ WebhookSaveRejected(h)

SpecField == InitField /\ [][NextField]_vars

\* Either variant with handlers that change the contact map, the index and
\* both files, and with pings at any time. No owner number is configured.
InitPing ==
  \E v \in {1, 2} :
    Constructed(v, [ownerPhoneNumber |-> None, credentials |-> TRUE], History1,
                FileOf([ownerPhoneNumber |-> None]), Unreadable, Unreadable)

NextPing ==
  \/ Startup
  \/ \E h \in Slots :
       \/ Ping(h)
       \/ \E to \in Phones, customerName \in {None, "N1"} :
            SendMessage(h, to, Body1, customerName)
       \/ SendCreated(h)
       \/ SendCreateRejected(h)
       \/ SendCustomersSaved(h)
       \/ SendCustomersSaveRejected(h)
       \/ SendConversationsSaved(h)
       \/ SendConversationsSaveRejected(h)
       \/ \E From \in Phones : \E MessageSid \in InboundSids(From) :
            Webhook(h, From, Body1, MessageSid)
       \/ WebhookSaved(h)
       \/ WebhookSaveRejected(h)
       \/ \E phoneNumber \in Phones : DeleteConversation(h, phoneNumber)
       \/ DeleteSaved(h)
       \/ DeleteSaveRejected(h)

SpecPing == InitPing /\ [][NextPing]_vars

\* The first variant with one dashboard page: the page is opened once the
\* server listens, messages come in and go out, and the user of the page
\* selects and deletes conversations. No owner number is configured and no
\* contact name is sent.
InitClient ==
  Constructed(1, [ownerPhoneNumber |-> None, credentials |-> TRUE], History1,
              FileOf([ownerPhoneNumber |-> None]), Unreadable, Unreadable)

NextClient ==
  \/ Startup
  \/ OpenPage
  \/ ConnectPage
  \/ ConversationsAnswered
  \/ ConversationsLoaded
  \/ DataLoaded
  \/ HandleEvent
  \/ \E phoneNumber \in Phones : SelectConversation(phoneNumber)
  \/ StartNewConversation
  \/ \E h \in Slots :
       \/ \E to \in Phones : Read(h) /\ SendMessage(h, to, Body1, None)
       \/ SendCreated(h)
       \/ SendCreateRejected(h)
       \/ SendConversationsSaved(h)
       \/ SendConversationsSaveRejected(h)
       \/ \E From \in Phones : \E MessageSid \in InboundSids(From) :
            Read(h) /\ Webhook(h, From, Body1, MessageSid)
       \/ WebhookSaved(h)
       \/ WebhookSaveRejected(h)
       \/ \E phoneNumber \in Phones : ClickDelete(h, phoneNumber)
       \/ DeleteSaved(h)
       \/ DeleteSaveRejected(h)
       \/ DeleteAnswered(h)

SpecClient == InitClient /\ [][NextClient]_vars

\* The page has loaded its data and its socket is connected.
Attending == page = "ready" /\ ClientSession \in connected

\* The same with a page that attends before any request arrives, and with
\* file writes and provider calls that succeed while requests are handled.
NextPage ==
  \/ Startup
  \/ OpenPage
  \/ ConnectPage
  \/ ConversationsAnswered
  \/ ConversationsLoaded
  \/ DataLoaded
  \/ HandleEvent
  \/ \E phoneNumber \in Phones : SelectConversation(phoneNumber)
  \/ StartNewConversation
  \/ \E h \in Slots :
       \/ \E to \in Phones :
            Attending /\ Read(h) /\ SendMessage(h, to, Body1, None)
       \/ SendCreated(h)
       \/ SendConversationsSaved(h)
       \/ \E From \in Phones : \E MessageSid \in InboundSids(From) :
            Attending /\ Read(h) /\ Webhook(h, From, Body1, MessageSid)
       \/ WebhookSaved(h)
       \/ \E phoneNumber \in Phones : ClickDelete(h, phoneNumber)
       \/ DeleteSaved(h)
       \/ DeleteAnswered(h)

SpecPage == InitClient /\ [][NextPage]_vars

\* The first variant with every route: an owner number is configured, so that
\* the webhook forwards, and every request is about the first customer.
InitReplies ==
  Constructed(1, [ownerPhoneNumber |-> None, credentials |-> TRUE], History1,
              FileOf([ownerPhoneNumber |-> OwnerNumber]),
              FileOf([p \in {"P1"} |-> "N1"]), Unreadable)

\* A request arrives in slot h and its handler runs up to its first await, or
\* to its response if it awaits nothing; the requests about contacts count
\* among the MaxRequests requests of a behaviour, and the provider delivers
\* each inbound message once.
Dispatched(h) ==
  \/ \E customerName \in {None, "N1"} : SendMessage(h, "P1", Body1, customerName)
  \/ Webhook(h, "P1", Body1, <<"in", arrived + 1>>)
  \/ DeleteConversation(h, "P1")
  \/ GetConversations(h)
  \/ Ping(h)
  \/ /\ arrived < MaxRequests
     /\ \/ PostCustomers(h, "P1", "N1")
        \/ ExportCustomers(h)
        \/ ImportCustomers(h, ObjectOf([p \in {"P1"} |-> "N2"]))
        \/ ImportCustomers(h, NotAnObject)

\* The provider call or the file write that the handler in slot h awaits
\* resolves or rejects, and the handler runs on to its next await or to its
\* response.
Settles(h) ==
  \/ SendCreated(h)
  \/ SendCreateRejected(h)
  \/ SendCustomersSaved(h)
  \/ SendCustomersSaveRejected(h)
  \/ SendConversationsSaved(h)
  \/ SendConversationsSaveRejected(h)
  \/ WebhookSaved(h)
  \/ WebhookSaveRejected(h)
  \/ WebhookForwarded(h)
  \/ WebhookForwardRejected(h)
  \/ DeleteSaved(h)
  \/ DeleteSaveRejected(h)
  \/ PostCustomersSaved(h)
  \/ PostCustomersSaveRejected(h)
  \/ ImportSaved(h)
  \/ ImportSaveRejected(h)

NextReplies == Startup \/ \E h \in Slots : Dispatched(h) \/ Settles(h)

\* Every provider call and every file write that a handler awaits resolves or
\* rejects in the end.
SpecReplies ==
  InitReplies /\ [][NextReplies]_vars /\ \A h \in Slots : WF_vars(Settles(h))

\* ------------------------------------------------------------------ claims

\* The positions of a handler run's log at which it did `op`.
Entries(h, op) == { i \in 1 .. Len(log[h]) : log[h][i].op = op }

Ops(h) == [i \in 1 .. Len(log[h]) |-> log[h][i].op]

\* The positions at which a run changed the contact map or the index.
Mutations(h) ==
  Entries(h, "contact") \cup Entries(h, "append") \cup Entries(h, "remove")

\* This step is the arrival of a request, taken by slot h.
Taken(h) ==
  /\ arrived' # arrived
  /\ Free(h)
  /\ \A k \in Slots : k < h => ~Free(k)

\* What a handler shares with the other handlers and with the clients.
shared ==
  <<customers, conversations, customersFile, conversationsFile, events>>

\* C1: every POST /send-message whose provider send succeeded has, when it is
\* answered, appended exactly one message, an outbound one, to the conversation
\* of `to`, and published exactly one 'new-message' event for `to` that carries
\* that message, which is also the message of the response.
C1_SendAppendsAndPublishesOnce ==
  \A h \in Slots :
    (pc[h] = "done" /\ req[h].kind = "send" /\ Entries(h, "create") # {}) =>
      /\ Cardinality(Entries(h, "append")) = 1
      /\ Cardinality(Entries(h, "emit")) = 1
      /\ \A i \in Entries(h, "append"), j \in Entries(h, "emit") :
           /\ log[h][i].phoneNumber = req[h].phoneNumber
           /\ log[h][i].message.direction = "outbound"
           /\ log[h][j].body = <<"new-message">>
           /\ log[h][j].phoneNumber = req[h].phoneNumber
           /\ log[h][j].message = log[h][i].message
           /\ resp[h].message = StringifyMessage(log[h][i].message)

\* C2: a POST /send-message whose provider send fails is answered 500 and has
\* committed nothing: neither its arrival nor the failure changes the contact
\* map, the index, a file or the published events, and the run has done
\* nothing in between.
C2_ProviderFailureCommitsNothing ==
  [][\A h \in Slots :
       /\ (Taken(h) /\ req'[h].kind = "send") =>
            /\ UNCHANGED shared
            /\ pc'[h] = "done" => resp'[h] = JsonError(500)
       /\ (pc[h] = "send:create" /\ pc'[h] = "done") =>
            /\ UNCHANGED shared
            /\ resp'[h] = JsonError(500)
            /\ log'[h] = <<>>]_vars

\* A send with a contact name was rejected by the provider and answered 500,
\* while the index holds conversations.
C2_Witness ==
  \E h \in Slots :
    /\ pc[h] = "done" /\ req[h].kind = "send" /\ Truthy(req[h].name)
    /\ twilioClient # None
    /\ resp[h].status = 500 /\ log[h] = <<>>
    /\ DOMAIN conversations # {}

\* C3: every POST /webhook is answered with the success acknowledgment of its
\* variant, whatever happened to the write and to the forward.
C3_WebhookAlwaysAcknowledges ==
  \A h \in Slots :
    (pc[h] = "done" /\ req[h].kind = "webhook") =>
      resp[h] = WebhookResponse(variant, 200)

\* C4: a webhook with an owner number configured whose steps all succeed does,
\* in this order: append one inbound message with status 'received' to the
\* conversation of From, persist, send one message to the owner with the body
\* 'SMS from {name of From, or From if it has none}: {Body}', publish one
\* 'new-message' event for From. The forward is in no conversation and no event.
C4_WebhookForwardsToOwner ==
  [][\A h \in Slots :
       LET From == req[h].phoneNumber
           name == IF From \in DOMAIN customers /\ customers[From] # ""
                     THEN customers[From] ELSE From
       IN /\ (pc[h] = "webhook:save" /\ pc'[h] = "webhook:forward") =>
               local'[h].forwardMessage = <<"SMS from ", name, ": ">> \o req[h].body
          /\ (pc[h] = "webhook:forward" /\ pc'[h] = "done"
                /\ resp'[h].status = 200) =>
               /\ Truthy(OwnerPhone)
               /\ Ops(h)' = <<"append", "save", "create", "emit">>
               /\ log'[h][1].phoneNumber = From
               /\ log'[h][1].message =
                    [id |-> req[h].sid, from |-> From, to |-> TwilioNumber,
                     body |-> req[h].body, direction |-> "inbound",
                     timestamp |-> log'[h][1].message.timestamp,
                     status |-> "received"]
               /\ log'[h][3].phoneNumber = OwnerPhone
               /\ log'[h][3].body = local[h].forwardMessage
               /\ log'[h][4].body = <<"new-message">>
               /\ log'[h][4].phoneNumber = From
               /\ log'[h][4].message = log'[h][1].message
               /\ events' = Append(events, Event("new-message", From,
                                                 log'[h][1].message))
               /\ UNCHANGED <<customers, conversations>>
               /\ \A p \in DOMAIN conversations :
                    \A i \in 1 .. Len(conversations[p]) :
                      conversations[p][i].body # local[h].forwardMessage
               /\ \A i \in 1 .. Len(events') :
                    events'[i].message.body # local[h].forwardMessage]_vars

\* A webhook from a customer with a contact name was forwarded and answered.
C4_Witness ==
  \E h \in Slots :
    /\ pc[h] = "done" /\ req[h].kind = "webhook" /\ resp[h].status = 200
    /\ Truthy(OwnerPhone)
    /\ local[h].forwardMessage = <<"SMS from ", "N1", ": ">> \o req[h].body
    /\ Ops(h) = <<"append", "save", "create", "emit">>

\* C5: every answered handler run that changed the index has published
\* exactly one event, after its write of the conversations file completed.
C5_EveryIndexChangeIsPublished ==
  \A h \in Slots :
    (pc[h] = "done" /\ Entries(h, "append") \cup Entries(h, "remove") # {}) =>
      /\ Cardinality(Entries(h, "emit")) = 1
      /\ \A j \in Entries(h, "emit") : \E i \in Entries(h, "save") : i < j

\* C6 as stated: no handler has changed the contact map or the index while a
\* provider call of its run is outstanding, and a run that ended in an error
\* because its provider call failed has changed neither.
C6_NoChangeBeforeProviderSuccess ==
  \A h \in Slots :
    /\ pc[h] \in {"send:create", "webhook:forward"} => Mutations(h) = {}
    /\ (pc[h] = "done" /\ resp[h].status = 500 /\ Entries(h, "create") = {}
          /\ (req[h].kind = "webhook" => Entries(h, "save") # {})) =>
         Mutations(h) = {}

\* C6, amended: a send run changes nothing before its provider call succeeded,
\* so a send run that failed at the provider has changed nothing; a webhook run
\* has appended and persisted its one message, and nothing else, when it
\* forwards, also when the forward fails.
C6_SendCommitsAfterProviderWebhookBefore ==
  \A h \in Slots :
    /\ pc[h] = "send:create" => log[h] = <<>>
    /\ req[h].kind = "send" =>
         \A i \in Mutations(h) : \E j \in Entries(h, "create") : j < i
    /\ (pc[h] = "done" /\ req[h].kind = "send" /\ Entries(h, "create") = {}) =>
         log[h] = <<>>
    /\ pc[h] = "webhook:forward" => Ops(h) = <<"append", "save">>
    /\ (pc[h] = "done" /\ req[h].kind = "webhook" /\ resp[h].status = 500
          /\ Entries(h, "save") # {}) =>
         Ops(h) = <<"append", "save">>

\* A webhook whose forward the provider rejected: answered 500, its message
\* appended and persisted.
C6_Witness ==
  \E h \in Slots :
    /\ pc[h] = "done" /\ req[h].kind = "webhook" /\ resp[h].status = 500
    /\ twilioClient # None
    /\ Ops(h) = <<"append", "save">>

\* A step of handler slot g that reads or writes the contact map or the index.
Touches(g) ==
  \/ Taken(g) /\ req'[g].kind # "send"
  \/ pc[g] \in {"send:create", "send:saveCustomers"}
       /\ Len(log'[g]) > Len(log[g])
  \/ pc[g] = "webhook:save" /\ Len(log'[g]) > Len(log[g]) /\ Truthy(OwnerPhone)

\* C7: while a mutating handler run is suspended, no other handler run reads or
\* changes the contact map or the index.
C7_HandlersRunOneAtATime ==
  [][\A h \in Slots :
       (~Free(h) /\ pc'[h] = pc[h]) =>
         /\ UNCHANGED <<customers, conversations>>
         /\ \A g \in Slots \ {h} : ~Touches(g)]_vars

\* C8: a DELETE for a number with a conversation removes it, is answered with
\* success and publishes exactly one 'conversation-deleted' event for it; a
\* GET /conversations returns the numbers of the index as it is then, so it
\* omits the number unless a message was appended since.
C8_DeleteRemovesAndPublishes ==
  [][/\ \A h \in Slots :
          (Taken(h) /\ req'[h].kind = "delete"
             /\ req'[h].phoneNumber \in DOMAIN conversations) =>
            req'[h].phoneNumber \notin DOMAIN conversations'
     /\ \A h \in Slots :
          (pc[h] = "delete:save" /\ pc'[h] = "done") =>
            /\ resp'[h] = JsonSuccess(NoMessage)
            /\ events' = Append(events, Event("conversation-deleted",
                                              req[h].phoneNumber, NoMessage))
     /\ \A g \in Slots :
          (Taken(g) /\ req'[g].kind = "list") =>
            DOMAIN resp'[g].index = DOMAIN conversations]_vars

\* C9: a DELETE for a number without a conversation is answered 404 at once and
\* changes neither the index nor the conversations file, and publishes nothing.
C9_DeleteOfAbsentIsNotFound ==
  [][\A h \in Slots :
       (Taken(h) /\ req'[h].kind = "delete"
          /\ req'[h].phoneNumber \notin DOMAIN conversations) =>
         /\ pc'[h] = "done"
         /\ resp'[h] = JsonError(404)
         /\ log'[h] = <<>>
         /\ UNCHANGED <<conversations, conversationsFile, events>>]_vars

\* A number was deleted with success, and a second DELETE for it got 404.
C9_Witness ==
  \E h, g \in Slots :
    /\ h # g
    /\ pc[h] = "done" /\ req[h].kind = "delete" /\ resp[h].status = 200
    /\ pc[g] = "done" /\ req[g].kind = "delete" /\ resp[g].status = 404
    /\ req[g].phoneNumber = req[h].phoneNumber

\* The party of a provider message that is not this system's own number.
Counterparty(message) ==
  IF message.from = TwilioNumber THEN message.to ELSE message.from

\* C10: when initializeApp has returned after a resync whose provider query
\* succeeded, the index holds exactly the provider's messages, each in the
\* conversation of its counterparty, each conversation ascending by timestamp.
C10_ResyncHoldsProviderMessages ==
  (boot = "initialized" /\ listed = "ok") =>
    /\ \A k \in 1 .. Len(providerMessages) :
         LET message == providerMessages[k]
             p == Counterparty(message)
         IN /\ p \in DOMAIN conversations
            /\ \E i \in 1 .. Len(conversations[p]) :
                 /\ conversations[p][i].id = message.sid
                 /\ conversations[p][i].from = message.from
                 /\ conversations[p][i].to = message.to
                 /\ conversations[p][i].body = message.body
                 /\ Millis(conversations[p][i].timestamp) =
                      Millis(message.dateCreated)
    /\ Cardinality(UNION { { <<p, i>> : i \in 1 .. Len(conversations[p]) } :
                           p \in DOMAIN conversations })
         = Len(providerMessages)
    /\ \A p \in DOMAIN conversations :
         \A i, j \in 1 .. Len(conversations[p]) :
           i < j => Millis(conversations[p][i].timestamp)
                      <= Millis(conversations[p][j].timestamp)

\* C11: when the provider query of the resync fails, the index is left as it
\* was by the failure itself, the next step makes it the parsed conversations
\* file if that can be read and the empty index otherwise, without writing the
\* file, and initializeApp returns; the query is not made a second time.
C11_ProviderFailureLoadsSnapshot ==
  [][/\ (boot = "list" /\ listed' = "failed") =>
          /\ boot' = "readConversations"
          /\ UNCHANGED <<conversations, conversationsFile>>
     /\ (boot = "readConversations" /\ listed = "failed") =>
          /\ boot' = "initialized"
          /\ conversations' = IF conversationsFile.ok
                                THEN conversationsFile.data ELSE EmptyMap
          /\ UNCHANGED conversationsFile
     /\ listed = "failed" => boot' \notin {"list", "writeConversations"}]_vars

\* The provider query failed and the index was loaded from a snapshot that
\* holds a conversation.
C11_Witness ==
  /\ boot = "initialized" /\ listed = "failed"
  /\ conversationsFile.ok
  /\ conversations = conversationsFile.data
  /\ DOMAIN conversations # {}

\* What session s has received: the published events that were sent to it.
Inbox(s) == SelectSeq(events, LAMBDA e : s \in e.sessions)

\* C18: an event is sent when it is published, once, to exactly the sessions
\* connected at that moment; a published event is never sent again or to
\* anyone else, so a session receives nothing while it is not connected and
\* nothing of what was published before it connected.
C18_EventsGoToConnectedSessionsOnce ==
  [][/\ Len(events') \in {Len(events), Len(events) + 1}
     /\ \A i \in 1 .. Len(events) : events'[i] = events[i]
     /\ Len(events') > Len(events) =>
          events'[Len(events')].sessions = connected
     /\ \A s \in Sessions : s \notin connected => Inbox(s)' = Inbox(s)]_vars

\* Two events were published; the second session connected between them and
\* has received the second only, the first session both.
C18_Witness ==
  /\ Len(events) = 2
  /\ events[1].sessions = {"S1"}
  /\ events[2].sessions = {"S1", "S2"}
  /\ Len(Inbox("S1")) = 2 /\ Len(Inbox("S2")) = 1

\* C12: while the startup sequence (and with it the resync) runs, no handler
\* runs, so nobody reads the index; and each of its steps that changes the
\* index replaces the whole of it, by the index rebuilt from the provider's
\* messages, by the parsed conversations file or by the empty index. What a
\* GET /conversations returns is the whole index as it is then.
C12_ResyncSwapsIndex ==
  [][/\ boot # "listening" =>
          /\ UNCHANGED <<arrived, pc, req, resp>>
          /\ conversations' # conversations =>
               conversations' \in
                 { Rebuilt(variant, providerMessages),
                   IF conversationsFile.ok
                     THEN conversationsFile.data ELSE EmptyMap }
     /\ \A g \in Slots :
          (Taken(g) /\ req'[g].kind = "list") =>
            /\ boot = "listening"
            /\ resp'[g].index = StringifyConversations(conversations)]_vars

\* The first request after startup was a GET /conversations, and it returned
\* the index rebuilt from the provider's messages.
C12_Witness ==
  \E g \in Slots :
    /\ arrived = 1
    /\ pc[g] = "done" /\ req[g].kind = "list"
    /\ resp[g].index =
         StringifyConversations(Rebuilt(variant, providerMessages))
    /\ DOMAIN resp[g].index # {}

\* C13: every message of the index is in the conversation of its
\* counterparty, an inbound one under its sender and an outbound one under
\* its addressee, and no message is in two conversations.
C13_MessagesAreFiledByCounterparty ==
  /\ \A P \in DOMAIN conversations :
       \A i \in 1 .. Len(conversations[P]) :
         LET m == conversations[P][i]
         IN /\ m.direction = "inbound" => m.from = P
            /\ m.direction = "outbound" => m.to = P
  /\ \A P, Q \in DOMAIN conversations :
       P # Q =>
         \A i \in 1 .. Len(conversations[P]), j \in 1 .. Len(conversations[Q]) :
           conversations[P][i].id # conversations[Q][j].id

\* C14: every conversation of the index is in ascending order of timestamp.
C14_ConversationsAreAscending ==
  \A P \in DOMAIN conversations :
    \A i, j \in 1 .. Len(conversations[P]) :
      i < j => Millis(conversations[P][i].timestamp)
                 <= Millis(conversations[P][j].timestamp)

\* The places of the index: a conversation and a position in it.
Places ==
  UNION { { <<P, i>> : i \in 1 .. Len(conversations[P]) } :
          P \in DOMAIN conversations }

\* C15: no two messages of the index have the same id.
C15_MessageIdsAreUnique ==
  \A x, y \in Places :
    x # y => conversations[x[1]][x[2]].id # conversations[y[1]][y[2]].id

\* C16: every message of the index has the direction 'inbound' or 'outbound'.
C16_DirectionIsInboundOrOutbound ==
  \A x \in Places :
    conversations[x[1]][x[2]].direction \in {"inbound", "outbound"}

\* C17: when the server listens, no handler run is in flight and none of the
\* runs that were answered last failed, a file that such a run has written
\* holds what is in memory: the conversations file the index, the contacts
\* file the contact map.
C17_FilesMirrorMemory ==
  (/\ boot = "listening"
   /\ \A h \in Slots : Free(h)
   /\ \A h \in Slots : pc[h] = "done" => resp[h].status # 500) =>
    /\ (\E h \in Slots : Entries(h, "save") # {}) =>
         conversationsFile = FileOf(StringifyConversations(conversations))
    /\ (\E h \in Slots : Entries(h, "saveCustomers") # {}) =>
         customersFile = FileOf(StringifyCustomers(customers))

\* C19: a POST /import-customers with the mapping I, arriving when the contact
\* map is C, makes the contact map C overridden by I (the names of I for the
\* keys of I, the names of C for the other keys of C, no other key), and is
\* answered with imported = the number of keys of I and total = the number of
\* keys of that merged map.
C19_ImportMergesAndCounts ==
  [][\A h \in Slots :
       LET I == req'[h].mapping.data
       IN /\ (Taken(h) /\ req'[h].kind = "import" /\ req'[h].mapping.object) =>
               /\ DOMAIN customers' = DOMAIN customers \cup DOMAIN I
               /\ \A p \in DOMAIN I : customers'[p] = I[p]
               /\ \A p \in DOMAIN customers \ DOMAIN I :
                    customers'[p] = customers[p]
          /\ (pc[h] = "import:save" /\ pc'[h] = "done") =>
               /\ resp'[h].status = 200
               /\ resp'[h].imported = Cardinality(DOMAIN I)
               /\ resp'[h].total = log[h][1].body[1]]_vars

\* C20: a POST /import-customers whose body is the export of the contact map
\* as it is leaves the contact map unchanged, and its answer has imported =
\* total = the number of keys of the contact map.
C20_ExportThenImportIsNoOp ==
  [][\A h \in Slots :
       /\ (/\ Taken(h) /\ req'[h].kind = "import"
           /\ req'[h].mapping = ObjectOf(StringifyCustomers(customers))) =>
            customers' = customers
       /\ (/\ pc[h] = "import:save" /\ pc'[h] = "done"
           /\ resp'[h].status = 200
           /\ req[h].mapping = ObjectOf(StringifyCustomers(customers))) =>
            /\ resp'[h].imported = Cardinality(DOMAIN customers)
            /\ resp'[h].total = Cardinality(DOMAIN customers)]_vars

\* C21: a POST /import-customers whose body is not a phone-to-name mapping
\* (null, a scalar, an array) is answered 400 with an error, and neither its
\* arrival nor its answer changes the contact map or the contacts file.
C21_ImportOfNonMappingIsRejected ==
  [][\A h \in Slots :
       /\ (/\ Taken(h) /\ req'[h].kind = "import"
           /\ (~req'[h].mapping.object \/ req'[h].mapping.array)) =>
            /\ pc'[h] = "done"
            /\ resp'[h].status = 400 /\ resp'[h].text = "error"
            /\ customers' = customers
            /\ customersFile' = customersFile
       /\ (/\ pc[h] = "import:save" /\ pc'[h] = "done"
           /\ req[h].mapping.array) =>
            /\ resp'[h].status = 400
            /\ customersFile' = customersFile]_vars

\* The step in which slot h takes and answers a ping.
Pinged(h) ==
  /\ Free(h)
  /\ \A k \in Slots : k < h => ~Free(k)
  /\ arrived' = arrived
  /\ req'[h].kind = "ping"
  /\ pc'[h] = "done"
  /\ <<req[h], resp[h], pc[h], log[h]>> # <<req'[h], resp'[h], pc'[h], log'[h]>>

\* C22: every GET /ping, in any state and between the steps of any other
\* handlers, is answered with status 'ok' and leaves the contact map, the
\* index, both files and the published events as they are.
C22_PingAnswersOkAndChangesNothing ==
  [][\A h \in Slots :
       Pinged(h) =>
         /\ resp'[h].status = 200 /\ resp'[h].text = "ok"
         /\ UNCHANGED <<customers, conversations, customersFile,
                        conversationsFile, events>>]_vars

\* A ping was answered while another handler was suspended at a file write
\* with the index changed.
C22_Witness ==
  \E h, g \in Slots :
    /\ req[h].kind = "ping" /\ pc[h] = "done" /\ resp[h].text = "ok"
    /\ pc[g] \in {"send:saveConversations", "webhook:save", "delete:save"}
    /\ conversations # EmptyMap

\* C23: whatever fails during startup (the read of the settings file, the
\* read of the contacts file, the provider query, the write or the read of the
\* conversations file), initializeApp returns and startServer reaches the
\* listening state.
C23_StartupAlwaysListens == <>(boot = "listening")

\* The server listens although the contacts file could not be read, and the
\* resync failed (the provider holds messages and the index is empty) with a
\* conversations file that could not be read either.
C23_Witness ==
  /\ boot = "listening"
  /\ twilioClient # None
  /\ ~customersFile.ok
  /\ ~conversationsFile.ok
  /\ providerMessages # <<>>
  /\ conversations = EmptyMap

\* C24: in the step in which the server starts to listen, the contact map is
\* the content of the contacts file if that file is readable, and the resync
\* has run (the provider query resolved or rejected), whether or not the
\* settings file could be read.
C24_ListensWithContactsLoadedAndResyncRun ==
  [][(boot = "initialized" /\ boot' = "listening") =>
       /\ customersFile.ok => customers = customersFile.data
       /\ listed \in {"ok", "failed"}]_vars

\* C30: the open conversation is never in the unread set.
C30_OpenConversationIsNeverUnread ==
  currentConversation \notin unreadConversations

\* The page has handled the event of an inbound message for the conversation
\* that is open.
C30_Witness ==
  /\ handled > 0
  /\ Received[handled].type = "new-message"
  /\ Received[handled].message.direction = "inbound"
  /\ Received[handled].phoneNumber = currentConversation
  /\ Len(mirror[currentConversation]) > 1

\* The page handles the event of a new message in this step.
HandlesNewMessage ==
  /\ handled' = handled + 1
  /\ Received[handled'].type = "new-message"

\* C25 as stated: the event of an inbound message for a number that is not
\* the open conversation leaves that number in the unread set; the event of
\* an outbound message adds nothing to the unread set; and a number leaves the
\* unread set only when its conversation is opened or deleted.
C25_InboundMarksUnread ==
  [][/\ HandlesNewMessage =>
          LET data == Received[handled']
          IN /\ (/\ data.message.direction = "inbound"
                  /\ currentConversation # data.phoneNumber) =>
                   data.phoneNumber \in unreadConversations'
             /\ data.message.direction # "inbound" =>
                   unreadConversations' \subseteq unreadConversations
     /\ \A phoneNumber \in unreadConversations \ unreadConversations' :
          \/ currentConversation' = phoneNumber
          \/ phoneNumber \notin DOMAIN mirror']_vars

\* C25, amended: the event of an inbound message for a number that is not the
\* open conversation leaves that number in the unread set if the mirror holds
\* a conversation for the number already; if it does not, the handler opens
\* the new conversation itself and the number is not unread. The event of an
\* outbound message adds nothing to the unread set, and a number leaves the
\* unread set only when its conversation is opened or deleted.
C25_InboundMarksUnreadUnlessNew ==
  [][/\ HandlesNewMessage =>
          LET data == Received[handled']
          IN /\ (/\ data.message.direction = "inbound"
                  /\ currentConversation # data.phoneNumber) =>
                   IF data.phoneNumber \in DOMAIN mirror
                     THEN /\ data.phoneNumber \in unreadConversations'
                          /\ currentConversation' = currentConversation
                     ELSE /\ data.phoneNumber \notin unreadConversations'
                          /\ currentConversation' = data.phoneNumber
             /\ data.message.direction # "inbound" =>
                   unreadConversations' \subseteq unreadConversations
     /\ \A phoneNumber \in unreadConversations \ unreadConversations' :
          \/ currentConversation' = phoneNumber
          \/ phoneNumber \notin DOMAIN mirror']_vars

\* A number is unread after the event of an inbound message for it, while
\* no conversation or another one is open.
C25_Witness ==
  /\ handled > 0
  /\ Received[handled].type = "new-message"
  /\ Received[handled].message.direction = "inbound"
  /\ Received[handled].phoneNumber \in unreadConversations
  /\ currentConversation # Received[handled].phoneNumber

\* No handler is in flight, no response of a DELETE is on its way to the page,
\* the page has loaded its data over a connected socket and has handled every
\* event sent to it.
Settled ==
  /\ page = "ready"
  /\ ClientSession \in connected
  /\ \A h \in Slots : Free(h) /\ ~(pc[h] = "done" /\ req[h].kind = "delete")
  /\ handled = Len(Received)

\* C26: once no handler is in flight and the page, connected and loaded, has
\* handled every event sent to it, the page's mirror of the conversations is
\* the server's index (as JSON carries it).
C26_MirrorConverges ==
  Settled => mirror = StringifyConversations(conversations)

\* C27: the page's mirror never holds a message twice.
C27_MirrorHoldsNoMessageTwice ==
  \A phoneNumber \in DOMAIN mirror :
    \A i, j \in 1 .. Len(mirror[phoneNumber]) :
      mirror[phoneNumber][i] = mirror[phoneNumber][j] => i = j

\* The messages of the conversation with phoneNumber in the index.
Held(phoneNumber) ==
  IF phoneNumber \in DOMAIN conversations
    THEN { conversations[phoneNumber][i] :
             i \in 1 .. Len(conversations[phoneNumber]) }
    ELSE {}

\* The run in slot g has deleted the conversation with phoneNumber and has
\* published 'conversation-deleted' for it.
DeletedAndPublished(g, phoneNumber) ==
  /\ req[g].kind = "delete"
  /\ req[g].phoneNumber = phoneNumber
  /\ Entries(g, "remove") # {}
  /\ Entries(g, "emit") # {}

\* C28: per phone number, events are published in the order in which the
\* changes were applied to the index: when 'new-message' is published for a
\* message of P, no deletion of P that removed that message from the index
\* has had its 'conversation-deleted' published already.
C28_EventsFollowTheOrderOfChanges ==
  [][\A h \in Slots :
       (/\ Len(events') = Len(events) + 1
        /\ events'[Len(events')].type = "new-message"
        /\ pc[h] # "done" /\ pc'[h] = "done"
        /\ events'[Len(events')].message \notin
             Held(events'[Len(events')].phoneNumber)) =>
         \A g \in Slots \ {h} :
           ~DeletedAndPublished(g, events'[Len(events')].phoneNumber)]_vars

\* C29: every conversation of the server's index holds at least one message,
\* in every state the server reaches from the index that startup leaves,
\* whether its handlers have completed or are suspended or have failed.
C29_NoConversationIsEmpty ==
  \A phoneNumber \in DOMAIN conversations :
    Len(conversations[phoneNumber]) > 0

\* A send to a number without a conversation has failed at the provider and
\* has left no conversation for that number, while the index holds another.
C29_Witness ==
  /\ conversations # EmptyMap
  /\ \E h \in Slots :
       /\ req[h].kind = "send"
       /\ pc[h] = "done"
       /\ resp[h].status = 500
       /\ Entries(h, "create") = {}
       /\ req[h].phoneNumber \notin DOMAIN conversations

\* C31: every request that reaches a handler (contacts upsert, delete, send,
\* webhook, import, export, list, ping) gets exactly one response, whether
\* its provider calls and file writes resolve or reject: while the handler
\* runs no response has been sent, the step that ends the handler sends one,
\* a sent response is not sent again or changed, and every handler that runs
\* comes to its end.
C31_EveryRequestGetsOneResponse ==
  /\ [][\A h \in Slots :
          /\ ~Free(h)' => resp'[h] = NoResponse
          /\ pc'[h] = "done" => resp'[h].status # 0
          /\ resp'[h] # resp[h] =>
               \/ Taken(h)
               \/ Pinged(h)
               \/ ~Free(h) /\ pc'[h] = "done"]_vars
  /\ \A h \in Slots : ~Free(h) ~> pc[h] = "done"

\* One request has been answered 500 after its provider call was rejected,
\* and another has been answered with success after its file write.
C31_Witness ==
  \E h, g \in Slots :
    /\ pc[h] = "done" /\ req[h].kind = "send" /\ resp[h].status = 500
    /\ pc[g] = "done" /\ Entries(g, "saveCustomers") # {}
    /\ resp[g].status = 200

====
